---- MODULE Spec2Model ----
(***************************************************************************)
(* commweb-tui: the row extractor (BoardRow::get_board_data, in its two    *)
(* variants: the one compiled into the binary, src/main.rs, and the        *)
(* uncompiled one of src/board.rs), the consumer loop of main (draw, then  *)
(* receive one event and handle it) and the producer thread that merges    *)
(* key events and ticks into the mpsc channel.                             *)
(*                                                                         *)
(* Text is a sequence of one-character strings, so that trim, replace and  *)
(* parse are computed rather than assumed.                                 *)
(***************************************************************************)
EXTENDS Integers, Sequences, FiniteSets, TLC

\* ------------------------------------------------------------------ bounds

\* Most row containers in one fetched document.
MaxRows == 2
\* Most fields of a generated row container that deviate from a complete row.
MaxDefects == 1
\* Most events waiting in the channel (mpsc::channel itself is unbounded).
MaxQueue == 2
\* The producer's clock is followed up to MaxElapsedTicks * tick_rate.
MaxElapsedTicks == 2

\* ------------------------------------------------------------ text helpers

\* Option<T>: None is the empty sequence, Some(x) the one-element sequence.
None == <<>>
Some(x) == <<x>>
IsSome(o) == o # <<>>
Unwrapped(o) == o[1]

\* The outcome of a computation that may panic.
Panic == [panic |-> TRUE]
Ok(v) == [panic |-> FALSE, val |-> v]

\* The whitespace the model's markup can hold.
WhiteSpace == {" ", "\t", "\n"}

Digits == {"0", "1", "2", "3", "4", "5", "6", "7", "8", "9"}

DigitValue(c) ==
    CASE c = "0" -> 0 [] c = "1" -> 1 [] c = "2" -> 2 [] c = "3" -> 3
      [] c = "4" -> 4 [] c = "5" -> 5 [] c = "6" -> 6 [] c = "7" -> 7
      [] c = "8" -> 8 [] c = "9" -> 9

\* u32::MAX, 4294967295, as its decimal digits.
U32MaxDigits == <<"4", "2", "9", "4", "9", "6", "7", "2", "9", "5">>

RECURSIVE TrimStart(_)
TrimStart(s) ==
    IF s # <<>> /\ Head(s) \in WhiteSpace THEN TrimStart(Tail(s)) ELSE s

RECURSIVE TrimEnd(_)
TrimEnd(s) ==
    IF s # <<>> /\ s[Len(s)] \in WhiteSpace
    THEN TrimEnd(SubSeq(s, 1, Len(s) - 1))
    ELSE s

\* str::trim
Trim(s) == TrimEnd(TrimStart(s))

\* str::replace(&['\n', '\t'], ""): every newline and tab is removed.
Replace(s) == SelectSeq(s, LAMBDA c : c \notin {"\n", "\t"})

RECURSIVE DigitsValue(_, _)
DigitsValue(s, acc) ==
    IF s = <<>> THEN acc ELSE DigitsValue(Tail(s), 10 * acc + DigitValue(Head(s)))

RECURSIVE StripZeros(_)
StripZeros(s) ==
    IF Len(s) > 1 /\ Head(s) = "0" THEN StripZeros(Tail(s)) ELSE s

\* For digit strings of one length: a is the greater number.
RECURSIVE GreaterDigits(_, _)
GreaterDigits(a, b) ==
    IF a = <<>> THEN FALSE
    ELSE IF DigitValue(Head(a)) # DigitValue(Head(b))
         THEN DigitValue(Head(a)) > DigitValue(Head(b))
         ELSE GreaterDigits(Tail(a), Tail(b))

\* The digit string stands for a number above u32::MAX.
OverflowsU32(ds) ==
    LET d == StripZeros(ds)
    IN  \/ Len(d) > Len(U32MaxDigits)
        \/ Len(d) = Len(U32MaxDigits) /\ GreaterDigits(d, U32MaxDigits)

\* str::parse::<u32>().unwrap_or(0): an optional '+', then one or more decimal
\* digits and nothing else (no surrounding whitespace); a value above u32::MAX
\* is an error as well.
ParseU32OrZero(s) ==
    LET body == IF s # <<>> /\ Head(s) = "+" THEN Tail(s) ELSE s
    IN  IF body = <<>> \/ \E i \in 1..Len(body) : body[i] \notin Digits
        THEN 0
        ELSE IF OverflowsU32(body) THEN 0
        ELSE DigitsValue(body, 0)

\* ------------------------------------------------------------ the document

(* A document is the sequence of its row containers (class symph_row) in   *)
(* document order; a container is the sequence of its descendant nodes in  *)
(* document order. A node has a tag name, a class, the classes of its      *)
(* ancestors inside the container, its text and one optional attribute     *)
(* value (href of a link, alt of an image).                                *)
Node(name, cls, anc, text, attr) ==
    [name |-> name, cls |-> cls, anc |-> anc, text |-> text, attr |-> attr]

\* Document::from(doc.as_str()) after replace: newlines and tabs are removed
\* from the whole markup, so from every text and attribute value.
ReplaceNode(n) ==
    [n EXCEPT !.text = Replace(n.text),
              !.attr = IF n.attr = None THEN None ELSE Some(Replace(Unwrapped(n.attr)))]

ReplaceDoc(doc) ==
    [i \in 1..Len(doc) |-> [j \in 1..Len(doc[i]) |-> ReplaceNode(doc[i][j])]]

\* Node::select(Class(cls)): the container's descendants of that class.
SelectClass(list_item, cls) == SelectSeq(list_item, LAMBDA n : n.cls = cls)

\* Node::select(Class(anc).descendant(Class(cls)))
SelectDescClass(list_item, anc, cls) ==
    SelectSeq(list_item, LAMBDA n : n.cls = cls /\ anc \in n.anc)

\* Node::select(Class(anc).descendant(Name(name)))
SelectDescName(list_item, anc, name) ==
    SelectSeq(list_item, LAMBDA n : n.name = name /\ anc \in n.anc)

\* .next() of a selection: Some(its first node), None when there is none.
First(sel) == IF sel = <<>> THEN None ELSE Some(Head(sel))

\* ----------------------------------------------- the extractor of main.rs

(* One iteration of the for loop of BoardRow::get_board_data in main.rs:   *)
(* every .next().unwrap() and .attr("href").unwrap() panics on None.       *)
main_board_row(list_item) ==
    LET title     == First(SelectClass(list_item, "subject_fixed"))
        subject   == First(SelectClass(list_item, "list_subject"))
        comment   == First(SelectClass(list_item, "rSymph05"))
        nickname  == First(SelectDescClass(list_item, "list_author", "nickname"))
        hit_count == First(SelectDescClass(list_item, "list_hit", "hit"))
        timestamp == First(SelectDescClass(list_item, "list_time", "timestamp"))
    IN  IF title = None THEN Panic
        ELSE IF subject = None THEN Panic
        ELSE IF subject[1].attr = None THEN Panic
        ELSE IF comment = None THEN Panic
        ELSE IF nickname = None THEN Panic
        ELSE IF hit_count = None THEN Panic
        ELSE IF timestamp = None THEN Panic
        ELSE Ok([title         |-> title[1].text,
                 url           |-> Unwrapped(subject[1].attr),
                 comment_count |-> ParseU32OrZero(comment[1].text),
                 nickname      |-> nickname[1].text,
                 hit_count     |-> hit_count[1].text,
                 timestamp     |-> timestamp[1].text])

RECURSIVE main_get_board_data_loop(_, _, _)
main_get_board_data_loop(list_items, i, boards) ==
    IF i > Len(list_items) THEN Ok(boards)
    ELSE LET board == main_board_row(list_items[i])
         IN  IF board.panic THEN Panic
             ELSE main_get_board_data_loop(list_items, i + 1, Append(boards, board.val))

\* BoardRow::get_board_data of main.rs: the rows, or Panic.
main_get_board_data(doc) == main_get_board_data_loop(doc, 1, <<>>)

\* ---------------------------------------------- the extractor of board.rs

\* BoardRow::get_comment_count: "0" when the marker node is absent.
get_comment_count(list_item) ==
    LET item_comment_count == First(SelectClass(list_item, "rSymph05"))
    IN  IF item_comment_count = None THEN <<"0">> ELSE item_comment_count[1].text

\* BoardRow::get_nickname: the nickname text, or the image's alt when that
\* text trims to nothing; trimmed. Panics without a nickname node, and, when
\* the fallback is taken, without an image or without its alt.
get_nickname(list_item) ==
    LET nick == First(SelectDescClass(list_item, "list_author", "nickname"))
        img  == First(SelectDescName(list_item, "list_author", "img"))
    IN  IF nick = None THEN Panic
        ELSE IF Trim(nick[1].text) = <<>>
             THEN IF img = None THEN Panic
                  ELSE IF img[1].attr = None THEN Panic
                  ELSE Ok(Trim(Unwrapped(img[1].attr)))
             ELSE Ok(Trim(nick[1].text))

board_board_row(list_item) ==
    LET title     == First(SelectClass(list_item, "subject_fixed"))
        subject   == First(SelectClass(list_item, "list_subject"))
        comment_count == get_comment_count(list_item)
        nickname  == get_nickname(list_item)
        hit_count == First(SelectDescClass(list_item, "list_hit", "hit"))
        timestamp == First(SelectDescClass(list_item, "list_time", "timestamp"))
    IN  IF title = None THEN Panic
        ELSE IF subject = None THEN Panic
        ELSE IF subject[1].attr = None THEN Panic
        ELSE IF nickname.panic THEN Panic
        ELSE IF hit_count = None THEN Panic
        ELSE IF timestamp = None THEN Panic
        ELSE Ok([title         |-> title[1].text,
                 url           |-> Unwrapped(subject[1].attr),
                 comment_count |-> ParseU32OrZero(comment_count),
                 nickname      |-> nickname.val,
                 hit_count     |-> hit_count[1].text,
                 timestamp     |-> timestamp[1].text])

RECURSIVE board_get_board_data_loop(_, _, _)
board_get_board_data_loop(list_items, i, boards) ==
    IF i > Len(list_items) THEN Ok(boards)
    ELSE LET board == board_board_row(list_items[i])
         IN  IF board.panic THEN Panic
             ELSE board_get_board_data_loop(list_items, i + 1, Append(boards, board.val))

\* BoardRow::get_board_data of board.rs: the rows, or Panic.
board_get_board_data(doc) == board_get_board_data_loop(doc, 1, <<>>)

\* ------------------------------------------------- the documents explored

(* A generated row container is described by one option per field; "ok" is *)
(* the complete row. The texts carry the container's tag (its position in  *)
(* the document), so a field taken from another container is seen.         *)
RowOptionSpace ==
    [title   : {"ok", "absent"},
     link    : {"ok", "absent", "nohref"},
     comment : {"ok", "absent", "nonnum"},
     nick    : {"ok", "absent", "empty", "blank"},
     img     : {"ok", "absent", "noalt"},
     hit     : {"ok", "absent"},
     time    : {"ok", "absent"}]

Defects(o) == Cardinality({f \in DOMAIN o : o[f] # "ok"})

RowOptions == {o \in RowOptionSpace : Defects(o) <= MaxDefects}

Tag(i) == CASE i = 1 -> "1" [] i = 2 -> "2" [] i = 3 -> "3" [] OTHER -> "4"

Opt(cond, node) == IF cond THEN <<node>> ELSE <<>>

\* The nodes of the i-th row container with options o, in page order.
MkContainer(o, i) ==
    LET t == Tag(i) IN
       Opt(o.link # "absent",
           Node("a", "list_subject", {"list_title"}, <<"T", t>>,
                IF o.link = "nohref" THEN None ELSE Some(<<"/", "u", t>>)))
    \o Opt(o.title # "absent",
           Node("span", "subject_fixed", {"list_title", "list_subject"},
                <<"T", t>>, None))
    \o Opt(o.comment # "absent",
           Node("span", "rSymph05", {"list_title", "list_reply"},
                IF o.comment = "nonnum" THEN <<"x">> ELSE <<"1", t>>, None))
    \o Opt(o.nick # "absent",
           Node("span", "nickname", {"list_author"},
                CASE o.nick = "empty" -> <<>>
                  [] o.nick = "blank" -> <<"\n", " ", "\t">>
                  [] OTHER -> <<"\n", " ", "n", t, " ">>,
                None))
    \o Opt(o.img # "absent",
           Node("img", "", {"list_author", "nickname"}, <<>>,
                IF o.img = "noalt" THEN None ELSE Some(<<" ", "a", t, "\t">>)))
    \o Opt(o.hit # "absent",
           Node("span", "hit", {"list_hit"}, <<"h", t>>, None))
    \o Opt(o.time # "absent",
           Node("span", "timestamp", {"list_time", "time"}, <<"d", t>>, None))

\* The option lists of the documents of up to n row containers.
DocOptions(n) == UNION {[1..k -> RowOptions] : k \in 0..n}

MkDoc(os) == [i \in 1..Len(os) |-> MkContainer(os[i], i)]

\* The pages the consumer loop is explored with: those of at most one row.
NavDocOptions == DocOptions(1)

\* BoardRow::get_board_data(doc) of read_board_rows for each of these pages,
\* doc being the body with its newlines and tabs removed.
NavBoardRows ==
    {main_get_board_data(ReplaceDoc(MkDoc(os))) : os \in NavDocOptions}


\* ------------------------------------------------------------ the program

VARIABLES
    pc,               \* main: "draw", "fetching", "recv", and once it has ended
                      \* "done", "draw_err", "recv_err", "panicked"
    active_menu_item, \* MenuItem: "Home" or "Boards"
    selected,         \* board_list_state.selected(): Option<usize>
    rows,             \* the rows of the table of the latest Boards frame
    chan,             \* the events sent on tx and not yet received on rx
    ppc,              \* the producer thread: "poll", "read", "tick", "panicked"
    elapsed,          \* last_tic.elapsed(), in milliseconds
    panic_msg,        \* what main panicked on, None before
    fetch_url,        \* the url of the latest call of network::request_url
    fetch_outcome,    \* how that call ended: "none" before the first, "pending",
                      \* "ok", "send_failed", "text_failed", "row_panic"
    fetches,          \* calls of read_board_rows since the latest event was received
    last_event,       \* the event rx.recv() returned, until the frame after it is drawn
    menu_before,      \* active_menu_item when the latest event was received
    selected_before,  \* board_list_state.selected() when the latest event was received
    b_received,       \* whether rx.recv() has ever returned the key 'b'
    last_read,        \* what the latest event::read() returned, until the next poll
    tick_elapsed,     \* last_tic.elapsed() when the latest Tick was sent, until the next poll
    doc_opts,         \* extraction alone: the options of the document given
    out_main,         \* extraction alone: the result of main.rs, None before
    out_board         \* extraction alone: the result of board.rs, None before

navvars == <<pc, active_menu_item, selected, rows, chan, ppc, elapsed,
             panic_msg, fetch_url, fetch_outcome, fetches, last_event,
             menu_before, selected_before, b_received,
             last_read, tick_elapsed>>
exvars == <<doc_opts, out_main, out_board>>
vars == <<navvars, exvars>>

\* Duration::from_millis(10000)
tick_rate == 10000

\* Event<KeyEvent>
Input(code) == [kind |-> "Input", code |-> code]
Tick == [kind |-> "Tick"]

\* A crossterm event that is no key event (CEvent::Mouse, CEvent::Resize).
OtherEvent == [kind |-> "Other"]

\* A send that puts the event at the front of the queue.
SendFront(ch, ev) == <<ev>> \o ch

\* A send that loses the event.
SendLossy(ch, ev) == ch

\* tx.send(ev) on the unbounded mpsc channel while rx lives: ev joins the
\* back of the queue.
Send(ch, ev) == Append(ch, ev)

\* The key codes told apart by the match of main; "other" is any other key.
KeyCodes == {"q", "h", "b", "Down", "Up", "other"}

\* read_boards(): the one board of the registry.
read_boards == <<[name |-> "recommended", uri |-> "recommend"]>>

\* The origin read_board_rows prepends to the board's uri.
Origin == "https://www.clien.net/service/"

\* The url without the origin in front: the bare board code.
BoardUrlBare(board_code) == board_code

\* The url read_board_rows requests: url.push_str(board_code).
BoardUrl(board_code) == Origin \o board_code

\* Down without its wrap to 0: the index always grows.
DownNoWrap(sel) ==
    IF sel = None THEN sel ELSE Some(Unwrapped(sel) + 1)

\* KeyCode::Down: amount_boards is the literal 1 of the handler.
Down(sel) ==
    LET amount_boards == 1
    IN  IF sel = None THEN sel
        ELSE IF Unwrapped(sel) >= amount_boards - 1 THEN Some(0)
        ELSE Some(Unwrapped(sel) + 1)

\* Up wrapping to amount_boards instead of amount_boards - 1.
UpOffByOne(sel) ==
    LET amount_boards == 1
    IN  IF sel = None THEN sel
        ELSE IF Unwrapped(sel) > 0 THEN Some(Unwrapped(sel) - 1)
        ELSE Some(amount_boards)

\* KeyCode::Up
Up(sel) ==
    LET amount_boards == 1
    IN  IF sel = None THEN sel
        ELSE IF Unwrapped(sel) > 0 THEN Some(Unwrapped(sel) - 1)
        ELSE Some(amount_boards - 1)

\* The match with 'h' also selecting nothing.
MatchSelectedSwitchClears(ev, sel) ==
    IF ev = Input("Down") THEN Down(sel)
    ELSE IF ev = Input("Up") THEN Up(sel)
    ELSE IF ev = Input("h") THEN None
    ELSE sel

\* What the match on the received event does to board_list_state: only the
\* Down and Up arms select.
MatchSelected(ev, sel) ==
    IF ev = Input("Down") THEN Down(sel)
    ELSE IF ev = Input("Up") THEN Up(sel)
    ELSE sel

\* The match with Tick also switching to the Boards view.
MatchMenuItemTickBoards(ev, item) ==
    IF ev = Input("h") THEN "Home"
    ELSE IF ev = Input("b") THEN "Boards"
    ELSE IF ev = Tick THEN "Boards"
    ELSE item

\* The match with Tick also switching to the Home view.
MatchMenuItemTickHome(ev, item) ==
    IF ev = Input("h") THEN "Home"
    ELSE IF ev = Input("b") THEN "Boards"
    ELSE IF ev = Tick THEN "Home"
    ELSE item

\* What the match on the received event does to active_menu_item: only the
\* 'h' and 'b' arms assign it.
MatchMenuItem(ev, item) ==
    IF ev = Input("h") THEN "Home"
    ELSE IF ev = Input("b") THEN "Boards"
    ELSE item

\* render_boards called for no view.
DrawsBoardsNever(item) == FALSE

\* render_boards called for either view.
DrawsBoardsAlways(item) == item \in {"Home", "Boards"}

\* The match on active_menu_item inside terminal.draw: only the Boards arm
\* calls render_boards, which fetches.
DrawsBoards(item) == item = "Boards"

\* A tick check that always finds the tick due.
TickDueAlways(el) == TRUE

\* last_tic.elapsed() >= tick_rate
TickDue(el) == el >= tick_rate

\* A subtraction that does not saturate.
PlainSub(a, b) == a - b

\* Duration::checked_sub(..).unwrap_or(0)
SaturatingSub(a, b) == IF b > a THEN 0 ELSE a - b

\* The producer's clock moves in halves of tick_rate.
Delays == {(k * tick_rate) \div 2 : k \in 0..(2 * MaxElapsedTicks)}
MaxElapsed == MaxElapsedTicks * tick_rate

Terminated == {"done", "draw_err", "recv_err", "panicked"}
\* rx lives until main returns or unwinds; the events still waiting in the
\* channel are dropped with it.
rx_open == pc \notin Terminated
\* tx lives until the producer thread unwinds.
tx_open == ppc # "panicked"

InitNav ==
    /\ pc = "draw"
    /\ active_menu_item = "Home"
    /\ selected = Some(0)
    /\ rows = <<>>
    /\ chan = <<>>
    /\ ppc = "poll"
    /\ elapsed = 0
    /\ panic_msg = None
    /\ fetch_url = None
    /\ fetch_outcome = "none"
    /\ fetches = 0
    /\ last_event = None
    /\ menu_before = "Home"
    /\ selected_before = Some(0)
    /\ b_received = FALSE
    /\ last_read = None
    /\ tick_elapsed = None

Init ==
    /\ InitNav
    /\ doc_opts = <<>>
    /\ out_main = None
    /\ out_board = None

\* ------------------------------------------------------------ the consumer

\* terminal.draw(..)? in the Home view: render_home, no fetch.
DrawHome ==
    /\ pc = "draw"
    /\ ~DrawsBoards(active_menu_item)
    /\ pc' = "recv"
    /\ last_event' = None
    /\ UNCHANGED <<active_menu_item, selected, rows, chan, ppc, elapsed,
                   panic_msg, fetch_url, fetch_outcome, fetches, menu_before,
                   selected_before, last_read, tick_elapsed,
                   b_received, exvars>>

\* terminal.draw(..)? fails with an io::Error: main returns Err.
DrawFails ==
    /\ pc = "draw"
    /\ pc' = "draw_err"
    /\ chan' = <<>>
    /\ UNCHANGED <<active_menu_item, selected, rows, ppc, elapsed, panic_msg,
                   fetch_url, fetch_outcome, fetches, last_event, menu_before,
                   selected_before, last_read, tick_elapsed,
                   b_received, exvars>>

\* render_boards up to the call of network::request_url: the lookup of the
\* selected board, then read_board_rows builds the url and sends the request.
DrawBoards ==
    /\ pc = "draw"
    /\ DrawsBoards(active_menu_item)
    /\ LET boards == read_boards IN
       IF selected = None
       THEN /\ pc' = "panicked"
            /\ panic_msg' = Some("there is always a selected board")
            /\ chan' = <<>>
            /\ UNCHANGED <<fetch_url, fetch_outcome, fetches>>
       ELSE IF Unwrapped(selected) >= Len(boards)
       THEN /\ pc' = "panicked"
            /\ panic_msg' = Some("exists")
            /\ chan' = <<>>
            /\ UNCHANGED <<fetch_url, fetch_outcome, fetches>>
       ELSE /\ pc' = "fetching"
            /\ fetch_url' = Some(BoardUrl(boards[Unwrapped(selected) + 1].uri))
            /\ fetch_outcome' = "pending"
            /\ fetches' = fetches + 1
            /\ UNCHANGED <<panic_msg, chan>>
    /\ UNCHANGED <<active_menu_item, selected, rows, ppc, elapsed, last_event,
                   menu_before, selected_before, last_read, tick_elapsed,
                   b_received, exvars>>

\* client.request(..).send() fails: .expect("Unable to get response.") panics.
FetchSendFails ==
    /\ pc = "fetching"
    /\ pc' = "panicked"
    /\ panic_msg' = Some("Unable to get response.")
    /\ fetch_outcome' = "send_failed"
    /\ chan' = <<>>
    /\ UNCHANGED <<active_menu_item, selected, rows, ppc, elapsed, fetch_url,
                   fetches, last_event, menu_before, selected_before, last_read, tick_elapsed,
                   b_received, exvars>>

\* resp.text() fails: .unwrap() panics.
FetchTextFails ==
    /\ pc = "fetching"
    /\ pc' = "panicked"
    /\ panic_msg' = Some("resp.text().unwrap()")
    /\ fetch_outcome' = "text_failed"
    /\ chan' = <<>>
    /\ UNCHANGED <<active_menu_item, selected, rows, ppc, elapsed, fetch_url,
                   fetches, last_event, menu_before, selected_before, last_read, tick_elapsed,
                   b_received, exvars>>

\* The response arrives (whatever its status): its body, newlines and tabs
\* removed, goes through get_board_data, and the rows fill the table.
FetchReturns ==
    /\ pc = "fetching"
    /\ \E board_row \in NavBoardRows :
         IF board_row.panic
         THEN /\ pc' = "panicked"
              /\ panic_msg' = Some("get_board_data unwrap")
              /\ fetch_outcome' = "row_panic"
              /\ chan' = <<>>
              /\ UNCHANGED <<rows, last_event>>
         ELSE /\ pc' = "recv"
              /\ rows' = board_row.val
              /\ fetch_outcome' = "ok"
              /\ last_event' = None
              /\ UNCHANGED <<panic_msg, chan>>
    /\ UNCHANGED <<active_menu_item, selected, ppc, elapsed, fetch_url,
                   fetches, menu_before, selected_before, last_read, tick_elapsed,
                   b_received, exvars>>

\* rx.recv()? returns an event, and the match handles it.
Recv ==
    /\ pc = "recv"
    /\ chan # <<>>
    /\ LET ev == Head(chan) IN
       /\ chan' = IF ev = Input("q") THEN <<>> ELSE Tail(chan)
       /\ last_event' = Some(ev)
       /\ menu_before' = active_menu_item
       /\ selected_before' = selected
       /\ fetches' = 0
       /\ b_received' = (b_received \/ ev = Input("b"))
       /\ pc' = IF ev = Input("q") THEN "done" ELSE "draw"
       /\ active_menu_item' = MatchMenuItem(ev, active_menu_item)
       /\ selected' = MatchSelected(ev, selected)
    /\ UNCHANGED <<rows, ppc, elapsed, panic_msg, fetch_url, fetch_outcome,
                   last_read, tick_elapsed,
                   exvars>>

\* rx.recv()? on an empty channel whose sender is gone: RecvError, main
\* returns Err.
RecvDisconnected ==
    /\ pc = "recv"
    /\ chan = <<>> /\ ~tx_open
    /\ pc' = "recv_err"
    /\ UNCHANGED <<active_menu_item, selected, rows, chan, ppc, elapsed,
                   panic_msg, fetch_url, fetch_outcome, fetches, last_event,
                   menu_before, selected_before, last_read, tick_elapsed,
                   b_received, exvars>>

\* ------------------------------------------------------------ the producer

(* The thread runs until it panics or the process exits; the exit of the   *)
(* process after main has ended stops it wherever it is.                   *)

\* event::poll(timeout) returns Ok(true): an input event is ready after d,
\* at most the timeout.
PollReady ==
    /\ ppc = "poll"
    /\ \E d \in Delays :
         /\ d <= SaturatingSub(tick_rate, elapsed)
         /\ elapsed + d <= MaxElapsed
         /\ elapsed' = elapsed + d
    /\ ppc' = "read"
    /\ tick_elapsed' = None
    /\ last_read' = None
    /\ UNCHANGED <<pc, active_menu_item, selected, rows, chan, panic_msg,
                   fetch_url, fetch_outcome, fetches, last_event, menu_before,
                   selected_before, b_received, exvars>>

\* event::poll(timeout) returns Ok(false): the timeout has passed.
PollTimeout ==
    /\ ppc = "poll"
    /\ elapsed + SaturatingSub(tick_rate, elapsed) <= MaxElapsed
    /\ elapsed' = elapsed + SaturatingSub(tick_rate, elapsed)
    /\ ppc' = "tick"
    /\ tick_elapsed' = None
    /\ last_read' = None
    /\ UNCHANGED <<pc, active_menu_item, selected, rows, chan, panic_msg,
                   fetch_url, fetch_outcome, fetches, last_event, menu_before,
                   selected_before, b_received, exvars>>

\* event::poll(timeout) returns Err: .expect("poll works") panics, the
\* producer thread unwinds and drops tx.
PollFails ==
    /\ ppc = "poll"
    /\ ppc' = "panicked"
    /\ tick_elapsed' = None
    /\ last_read' = None
    /\ UNCHANGED <<pc, active_menu_item, selected, rows, chan, elapsed,
                   panic_msg, fetch_url, fetch_outcome, fetches, last_event,
                   menu_before, selected_before, b_received, exvars>>

\* event::read() returns a key event: tx.send(Event::Input(key)), and
\* .expect("can send events") panics when rx is gone.
ReadKey ==
    /\ ppc = "read"
    /\ \E code \in KeyCodes :
         /\ last_read' = Some(Input(code))
         /\ IF rx_open
            THEN /\ Len(chan) < MaxQueue
                 /\ chan' = Send(chan, Input(code))
                 /\ ppc' = "tick"
            ELSE /\ ppc' = "panicked"
                 /\ UNCHANGED chan
    /\ UNCHANGED <<pc, active_menu_item, selected, rows, elapsed, panic_msg,
                   fetch_url, fetch_outcome, fetches, last_event, menu_before,
                   selected_before, tick_elapsed,
                   b_received, exvars>>

\* event::read() returns an event that is no key event (mouse, resize):
\* nothing is sent.
ReadOther ==
    /\ ppc = "read"
    /\ ppc' = "tick"
    /\ last_read' = Some(OtherEvent)
    /\ UNCHANGED <<pc, active_menu_item, selected, rows, chan, elapsed,
                   panic_msg, fetch_url, fetch_outcome, fetches, last_event,
                   menu_before, selected_before, tick_elapsed,
                   b_received, exvars>>

\* event::read() returns Err: .expect("can read events") panics.
ReadFails ==
    /\ ppc = "read"
    /\ ppc' = "panicked"
    /\ UNCHANGED <<pc, active_menu_item, selected, rows, chan, elapsed,
                   panic_msg, fetch_url, fetch_outcome, fetches, last_event,
                   menu_before, selected_before, last_read, tick_elapsed,
                   b_received, exvars>>

\* if last_tic.elapsed() >= tick_rate { if let Ok(_) = tx.send(Event::Tick)
\* { last_tic = Instant::now(); } }, then the loop starts over.
TickCheck ==
    /\ ppc = "tick"
    /\ IF TickDue(elapsed)
       THEN IF rx_open
            THEN /\ Len(chan) < MaxQueue
                 /\ chan' = Send(chan, Tick)
                 /\ elapsed' = 0
                 /\ tick_elapsed' = Some(elapsed)
            ELSE UNCHANGED <<chan, elapsed, tick_elapsed>>
       ELSE UNCHANGED <<chan, elapsed, tick_elapsed>>
    /\ ppc' = "poll"
    /\ UNCHANGED <<pc, active_menu_item, selected, rows, panic_msg, fetch_url,
                   fetch_outcome, fetches, last_event, menu_before,
                   selected_before, last_read, b_received, exvars>>

\* Time passes while the producer thread is not running.
Delay ==
    /\ tx_open
    /\ \E d \in Delays \ {0} :
         /\ elapsed + d <= MaxElapsed
         /\ elapsed' = elapsed + d
    /\ UNCHANGED <<pc, active_menu_item, selected, rows, chan, ppc, panic_msg,
                   fetch_url, fetch_outcome, fetches, last_event, menu_before,
                   selected_before, last_read, tick_elapsed,
                   b_received, exvars>>

Consumer ==
    \/ DrawHome
    \/ DrawFails
    \/ DrawBoards
    \/ FetchSendFails
    \/ FetchTextFails
    \/ FetchReturns
    \/ Recv
    \/ RecvDisconnected

Producer ==
    \/ PollReady
    \/ PollTimeout
    \/ PollFails
    \/ ReadKey
    \/ ReadOther
    \/ ReadFails
    \/ TickCheck
    \/ Delay

Next == Consumer \/ Producer

Spec == Init /\ [][Next]_vars

\* The main thread keeps running: a frame that can be drawn is drawn, a
\* request under way ends (with a response or a failure), and recv returns
\* once an event waits in the channel.
SpecLive == Spec /\ WF_vars(Consumer)

\* ------------------------------------------------- the extractors alone

(* The two variants of get_board_data applied to every document of up to   *)
(* MaxRows rows, as read_board_rows hands it over: newlines and tabs       *)
(* removed.                                                                *)
ExtractInit ==
    /\ InitNav
    /\ doc_opts \in DocOptions(MaxRows)
    /\ out_main = None
    /\ out_board = None

ExtractMain ==
    /\ out_main = None
    /\ out_main' = Some(main_get_board_data(ReplaceDoc(MkDoc(doc_opts))))
    /\ UNCHANGED <<navvars, doc_opts, out_board>>

ExtractBoard ==
    /\ out_board = None
    /\ out_board' = Some(board_get_board_data(ReplaceDoc(MkDoc(doc_opts))))
    /\ UNCHANGED <<navvars, doc_opts, out_main>>

ExtractNext == ExtractMain \/ ExtractBoard

SpecExtract == ExtractInit /\ [][ExtractNext]_vars


\* ------------------------------------------------------------- the claims

Running == {"draw", "fetching", "recv"}

\* C1: in every reachable state the selected board index is present and is
\* a valid index into the list read_boards returns, and main has never
\* panicked on the lookup of the selected board in render_boards.
C1_SelectedBoardValid ==
    /\ IsSome(selected)
    /\ Unwrapped(selected) \in 0..(Len(read_boards) - 1)
    /\ panic_msg \notin {Some("there is always a selected board"), Some("exists")}

\* The lookup of render_boards has succeeded for the frame that follows an
\* Up key handled in the Boards view.
C1_Witness ==
    /\ pc = "fetching"
    /\ menu_before = "Boards"
    /\ last_event = Some(Input("Up"))
    /\ fetch_outcome = "pending"
    /\ Unwrapped(selected) < Len(read_boards)

\* The last event received entered the Boards view, or changed the selected
\* board index within it.
EnteredBoards ==
    /\ active_menu_item = "Boards"
    /\ menu_before = "Home" \/ selected # selected_before

\* C2 as claimed: once the frame after an event is drawn, exactly one fetch
\* was made if the event entered the Boards view (or changed the board index
\* in it), and none for any other event (Tick, unmapped keys, 'b' in Boards).
C2_FetchOnlyOnEntry ==
    pc = "recv" => fetches = (IF EnteredBoards THEN 1 ELSE 0)

\* C2 as amended: the frame drawn after each received event makes exactly one
\* fetch when the active view is then Boards, whatever the event was, and
\* none when it is Home; so each entry into the Boards view makes one fetch.
C2_FetchPerBoardsFrame ==
    /\ fetches \in {0, 1}
    /\ pc = "recv" => fetches = (IF active_menu_item = "Boards" THEN 1 ELSE 0)
    /\ pc = "fetching" => fetches = 1 /\ active_menu_item = "Boards"
    /\ pc = "draw" => fetches = 0

\* The frame after the key 'b' received in the Home view is drawn: one fetch.
C2_Witness ==
    /\ pc = "recv"
    /\ menu_before = "Home"
    /\ active_menu_item = "Boards"
    /\ fetches = 1
    /\ fetch_outcome = "ok"

\* C3: when the request fails (no response, or a body that cannot be read),
\* the consumer loop keeps running in the same view, with the same selected
\* board index and the rows displayed before. (The code has no error flag
\* for the presentation layer; that part of the claim has no counterpart.)
C3_FetchFailureSurvived ==
    [][(fetch_outcome = "pending" /\ fetch_outcome' \in {"send_failed", "text_failed"})
        => /\ pc' \in Running
           /\ active_menu_item' = active_menu_item
           /\ selected' = selected
           /\ rows' = rows]_vars

\* C4: main ends only by receiving the key 'q': no failed fetch, malformed
\* row, failure of the producer or closed channel ends it. (An error of the
\* terminal while drawing, which is no part of the claim, is set aside.)
C4_EndsOnlyOnQuit ==
    (pc \in Terminated /\ pc # "draw_err")
        => pc = "done" /\ last_event = Some(Input("q"))

\* C5: with n boards, Down from index n-1 selects 0 and otherwise selects the
\* next index; Up from index 0 selects n-1 and otherwise the previous index.
\* Stated of the state right after the handler ran.
C5_BoardWrap ==
    LET n == Len(read_boards)
        s == Unwrapped(selected_before)
    IN  /\ (last_event = Some(Input("Down")) /\ IsSome(selected_before))
            => selected = Some(IF s = n - 1 THEN 0 ELSE s + 1)
        /\ (last_event = Some(Input("Up")) /\ IsSome(selected_before))
            => selected = Some(IF s = 0 THEN n - 1 ELSE s - 1)

\* Down was handled with the last board selected, and wrapped to 0.
C5_Witness ==
    /\ last_event = Some(Input("Down"))
    /\ selected_before = Some(Len(read_boards) - 1)
    /\ selected = Some(0)
    /\ pc = "draw"

\* A row container has the fields the specification requires: title, link
\* with href, hit count, timestamp, and an author (a nickname text, or an
\* image alt when that text is empty or blank). The comment marker is
\* optional.
HasRequired(o) ==
    /\ o.title = "ok" /\ o.link = "ok" /\ o.hit = "ok" /\ o.time = "ok"
    /\ o.nick = "ok" \/ (o.nick \in {"empty", "blank"} /\ o.img = "ok")

AllRequired(os) == \A i \in 1..Len(os) : HasRequired(os[i])

\* The positions of the containers with all required fields, in order.
RequiredPositions(os) ==
    SelectSeq([i \in 1..Len(os) |-> i], LAMBDA i : HasRequired(os[i]))

\* The result has exactly the rows of the containers with all required
\* fields, in document order (told apart by their titles).
SkipsBadRows(os, out) ==
    /\ ~out.panic
    /\ Len(out.val) = Len(RequiredPositions(os))
    /\ \A j \in 1..Len(out.val) :
         out.val[j].title = <<"T", Tag(RequiredPositions(os)[j])>>

\* C7: a row container lacking a required field is left out of the result of
\* get_board_data, the rows of the other containers are returned, and the
\* extraction does not panic; for either variant of get_board_data.
C7_BadRowSkipped ==
    /\ IsSome(out_main) => SkipsBadRows(doc_opts, out_main[1])
    /\ IsSome(out_board) => SkipsBadRows(doc_opts, out_board[1])

\* The result has one row per container, the i-th with the title, url, hit
\* count and timestamp of the i-th container.
RowPerContainer(os, out) ==
    /\ ~out.panic
    /\ Len(out.val) = Len(os)
    /\ \A i \in 1..Len(os) :
         /\ out.val[i].title = <<"T", Tag(i)>>
         /\ out.val[i].url = <<"/", "u", Tag(i)>>
         /\ out.val[i].hit_count = <<"h", Tag(i)>>
         /\ out.val[i].timestamp = <<"d", Tag(i)>>

\* C8: for a document of k row containers that each have all required
\* fields, get_board_data returns k rows, the i-th holding the fields of the
\* i-th container; for either variant of get_board_data.
C8_RowPerContainer ==
    AllRequired(doc_opts) =>
        /\ IsSome(out_main) => RowPerContainer(doc_opts, out_main[1])
        /\ IsSome(out_board) => RowPerContainer(doc_opts, out_board[1])

\* C8 holds of the variant of board.rs.
C8_BoardVariant ==
    (AllRequired(doc_opts) /\ IsSome(out_board))
        => RowPerContainer(doc_opts, out_board[1])

\* Every container without the comment-count marker gave a row whose
\* comment_count is 0.
AbsentMarkerIsZero(os, out) ==
    \A i \in 1..Len(os) :
        os[i].comment = "absent" =>
            /\ ~out.panic
            /\ Len(out.val) = Len(os)
            /\ out.val[i].comment_count = 0

\* C9: a row container without the comment-count marker (class rSymph05)
\* yields a row with comment_count = 0, in the extractor read_board_rows
\* calls (that of main.rs). Stated of documents whose containers have all
\* required fields.
C9_AbsentMarkerIsZero ==
    (AllRequired(doc_opts) /\ IsSome(out_main))
        => AbsentMarkerIsZero(doc_opts, out_main[1])

\* C9 holds of the variant of board.rs.
C9_BoardVariant ==
    (AllRequired(doc_opts) /\ IsSome(out_board))
        => AbsentMarkerIsZero(doc_opts, out_board[1])

\* The author of every row is the trimmed nickname text, or the trimmed alt
\* of the image when the nickname text is empty or blank.
AuthorFallsBack(os, out) ==
    /\ ~out.panic
    /\ Len(out.val) = Len(os)
    /\ \A i \in 1..Len(os) :
         /\ os[i].nick \in {"empty", "blank"} => out.val[i].nickname = <<"a", Tag(i)>>
         /\ os[i].nick = "ok" => out.val[i].nickname = <<"n", Tag(i)>>

HasMarkers(os) == \A i \in 1..Len(os) : os[i].comment # "absent"

\* C10: a row whose nickname text is empty or whitespace has the trimmed alt
\* of the author image as its author, and otherwise the trimmed nickname
\* text. Stated of documents whose containers have all required fields and
\* the comment marker, for the extractor of the running program.
C10_AuthorFallsBack ==
    (AllRequired(doc_opts) /\ HasMarkers(doc_opts) /\ IsSome(out_main))
        => AuthorFallsBack(doc_opts, out_main[1])

\* C10 holds of the variant of board.rs.
C10_BoardVariant ==
    (AllRequired(doc_opts) /\ IsSome(out_board))
        => AuthorFallsBack(doc_opts, out_board[1])

\* C11: a switch-view key ('h' to Home, 'b' to Boards) changes only the
\* active view: handling it sets active_menu_item to the view of the key and
\* leaves the selected board index (and the rows of the table) as they were.
C11_SwitchKeepsSelection ==
    [][(pc = "recv" /\ pc' = "draw" /\ chan # <<>>
            /\ Head(chan) \in {Input("h"), Input("b")})
        => /\ selected' = selected
           /\ rows' = rows
           /\ active_menu_item' =
                (IF Head(chan) = Input("h") THEN "Home" ELSE "Boards")]_vars

\* The key 'b' was handled in the Home view: the view is Boards and the
\* index is the one from before.
C11_Witness ==
    /\ pc = "draw"
    /\ last_event = Some(Input("b"))
    /\ menu_before = "Home"
    /\ active_menu_item = "Boards"
    /\ IsSome(selected)
    /\ selected = selected_before

\* C12: every fetch targets the url made of the fixed origin
\* "https://www.clien.net/service/" followed by the uri of the board at the
\* selected board index; while a request is under way, and whenever a
\* request has been made since the last event, the url requested is that one
\* and no other.
C12_FetchesSelectedBoard ==
    (pc = "fetching" \/ fetches > 0) =>
        /\ IsSome(selected)
        /\ Unwrapped(selected) < Len(read_boards)
        /\ fetch_url = Some("https://www.clien.net/service/"
                              \o read_boards[Unwrapped(selected) + 1].uri)

\* A request for the selected board is under way.
C12_Witness ==
    /\ pc = "fetching"
    /\ fetch_outcome = "pending"
    /\ selected = Some(0)
    /\ fetch_url = Some("https://www.clien.net/service/recommend")

\* C13: after main has consumed the quit event and the receiver is gone, a
\* failed send ends the producer loop: the producer, at the tick check with a
\* Tick due (so that tx.send(Event::Tick) is tried and fails), does not go
\* back to polling.
C13_FailedSendEndsProducer ==
    [][(pc = "done" /\ ppc = "tick" /\ elapsed >= tick_rate)
        => ppc' # "poll"]_vars

KeyEvents == {Input(code) : code \in KeyCodes}

\* The events that travel on the channel.
Events == KeyEvents \cup {Tick}

InChan(ev) == \E i \in 1..Len(chan) : chan[i] = ev

\* C14 as claimed, in its weakest reading: every key event the producer
\* reads while the channel is open is sent on the channel, and every event
\* on the channel is eventually received by the consumer loop, in every run
\* in which main does not fail (no draw error, no failed fetch, no lost
\* producer).
C14_EveryReadEventReceived ==
    /\ [][(ppc = "read" /\ ppc' = "tick" /\ rx_open
                /\ Unwrapped(last_read').kind = "Input")
            => chan' = Append(chan, Unwrapped(last_read'))]_vars
    /\ \A ev \in KeyEvents :
         InChan(ev) ~> (last_event = Some(ev) \/ pc \in Terminated \ {"done"})

\* C14 as amended: every key event read while the receiver lives is sent,
\* and an event that is no key event is read and not sent; the channel loses
\* an event only to rx.recv() (the head, which the loop then handles) or when
\* main ends; and every event on the channel is eventually received unless
\* main ends first.
C14_KeysReceivedUnlessMainEnds ==
    /\ [][(ppc = "read" /\ ppc' = "tick" /\ rx_open)
            => chan' = (IF Unwrapped(last_read').kind = "Input"
                        THEN Append(chan, Unwrapped(last_read'))
                        ELSE chan)]_vars
    /\ [][chan' # chan
            => \/ \E ev \in Events : chan' = Append(chan, ev)
               \/ /\ pc = "recv" /\ pc' = "draw"
                  /\ chan' = Tail(chan)
                  /\ last_event' = Some(Head(chan))
               \/ pc' \in Terminated /\ chan' = <<>>]_vars
    /\ \A ev \in Events :
         InChan(ev) ~> (last_event = Some(ev) \/ pc \in Terminated)

\* The key 'b' was read and sent behind an event still waiting, after an
\* earlier key had been received and handled.
C14_Witness ==
    /\ pc = "draw"
    /\ last_event = Some(Input("other"))
    /\ ppc = "tick"
    /\ last_read = Some(Input("b"))
    /\ Len(chan) = 2
    /\ chan[2] = Input("b")

\* C15: ticks are coalesced. A step that sends a Tick is taken only when at
\* least tick_rate has passed since last_tic, sends exactly one Tick and
\* resets last_tic, so the next Tick is again at least tick_rate away,
\* however many tick intervals have passed unserved.
C15_TicksCoalesced ==
    [][(Len(chan') > Len(chan) /\ chan'[Len(chan')] = Tick)
        => /\ elapsed >= tick_rate
           /\ elapsed' = 0
           /\ chan' = Append(chan, Tick)]_vars

\* The producer was held up for the longest delay and more than one tick
\* interval: one Tick was sent, none before it, and last_tic is reset.
C15_Witness ==
    /\ ppc = "poll"
    /\ tick_elapsed = Some(MaxElapsed)
    /\ MaxElapsed > tick_rate
    /\ elapsed = 0
    /\ chan = <<Tick>>

KeySent == Len(chan') > Len(chan) /\ chan'[Len(chan')].kind = "Input"
TickSent == Len(chan') > Len(chan) /\ chan'[Len(chan')] = Tick

\* C16: the consumer receives the events in the order the producer sent
\* them. A send puts the event behind all queued events, whatever main is
\* doing (blocked in a fetch included); rx.recv() returns the oldest queued
\* event and leaves the others in place; nothing else reorders the queue.
\* Within one producer iteration the key event is sent at the read, before
\* the Tick, which is sent at the tick check: with both sent in the latest
\* iteration, the Tick is the last queued event and the key, when still
\* queued, the one just before it.
C16_Fifo ==
    /\ [][chan' # chan
            => \/ /\ \E ev \in Events : chan' = Append(chan, ev)
                  /\ pc' = pc
               \/ /\ pc = "recv"
                  /\ last_event' = Some(Head(chan))
                  /\ chan' = Tail(chan) \/ (pc' = "done" /\ chan' = <<>>)
               \/ pc' \in Terminated /\ chan' = <<>>]_vars
    /\ [][(pc = "recv" /\ pc' \in {"draw", "done"})
            => chan # <<>> /\ last_event' = Some(Head(chan))]_vars
    /\ [][KeySent => ppc = "read" /\ ppc' = "tick"]_vars
    /\ [][TickSent => ppc = "tick" /\ ppc' = "poll"]_vars
    /\ [](  (ppc = "poll" /\ rx_open /\ IsSome(tick_elapsed)
                /\ IsSome(last_read) /\ Unwrapped(last_read).kind = "Input")
            => /\ Len(chan) >= 1 => chan[Len(chan)] = Tick
               /\ Len(chan) >= 2 => chan[Len(chan) - 1] = Unwrapped(last_read))

\* While main is blocked in a fetch, one producer iteration has sent the key
\* Down and then the Tick that was due: both wait in that order.
C16_Witness ==
    /\ pc = "fetching"
    /\ ppc = "poll"
    /\ last_read = Some(Input("Down"))
    /\ IsSome(tick_elapsed)
    /\ chan = <<Input("Down"), Tick>>

\* tick_rate minus el, and 0 when el is more than tick_rate.
RestOfTick(el) == IF el >= tick_rate THEN 0 ELSE tick_rate - el

\* C17: the timeout the producer passes to event::poll is tick_rate minus
\* the time elapsed since last_tic, saturated at 0, so it lies between 0 and
\* tick_rate; poll returns within it, and when it times out the tick check
\* comes next with at least tick_rate elapsed.
C17_PollTimeoutBounded ==
    /\ [](ppc = "poll" =>
            /\ SaturatingSub(tick_rate, elapsed) = RestOfTick(elapsed)
            /\ SaturatingSub(tick_rate, elapsed) \in 0..tick_rate)
    /\ [][(ppc = "poll" /\ ppc' = "read")
            => (elapsed' - elapsed) \in 0..RestOfTick(elapsed)]_vars
    /\ [][(ppc = "poll" /\ ppc' = "tick")
            => /\ elapsed' - elapsed = RestOfTick(elapsed)
               /\ elapsed' >= tick_rate]_vars

\* The poll of this iteration has timed out (nothing was read) with the
\* time since last_tic at exactly tick_rate: the tick check is next.
C17_Witness ==
    /\ ppc = "tick"
    /\ last_read = None
    /\ tick_elapsed = None
    /\ elapsed = tick_rate
    /\ rx_open

\* C18: a fetch is made only while the active view is Boards; as long as no
\* key 'b' has been received the view is Home and no call of
\* network::request_url has been made, whatever events were received.
C18_NoFetchInHome ==
    /\ pc = "fetching" => active_menu_item = "Boards"
    /\ fetches > 0 => active_menu_item = "Boards"
    /\ ~b_received =>
         /\ active_menu_item = "Home"
         /\ fetch_url = None
         /\ fetch_outcome = "none"
         /\ fetches = 0
         /\ rows = <<>>

\* The key Down was received in the Home view, no 'b' before it, and the
\* board index was selected anew: still no request has been made.
C18_Witness ==
    /\ pc = "draw"
    /\ ~b_received
    /\ last_event = Some(Input("Down"))
    /\ active_menu_item = "Home"
    /\ fetch_url = None

\* C19: while the active view is Boards every iteration of the loop makes
\* exactly one blocking fetch before the next event is received. When an
\* event is received, the iteration it ends has made one fetch if it began
\* in the Boards view and none otherwise, whatever event began it; a frame
\* drawn in the Boards view starts one fetch; and while a fetch is in
\* progress no event is taken from the channel and the view and the index
\* stay as they are.
C19_FetchPerBoardsIteration ==
    /\ [][(pc = "recv" /\ pc' \in {"draw", "done"})
            => fetches = (IF active_menu_item = "Boards" THEN 1 ELSE 0)]_vars
    /\ [][(pc = "draw" /\ pc' = "recv") => active_menu_item = "Home"]_vars
    /\ [][(pc = "draw" /\ pc' = "fetching")
            => /\ active_menu_item = "Boards"
               /\ fetches = 0 /\ fetches' = 1]_vars
    /\ [][pc = "fetching"
            => /\ pc' \in Terminated \/ Len(chan') >= Len(chan)
               /\ pc' \in {"fetching", "recv", "panicked"}
               /\ active_menu_item' = active_menu_item
               /\ selected' = selected
               /\ fetches' = fetches]_vars

\* A Tick was received in the Boards view and the fetch of the iteration it
\* began is in progress, with an event waiting in the channel.
C19_Witness ==
    /\ pc = "fetching"
    /\ last_event = Some(Tick)
    /\ menu_before = "Boards"
    /\ fetches = 1
    /\ chan # <<>>

\* C20: receiving a Tick or a key other than 'q', 'h', 'b', Up, Down leaves
\* the active view and the selected board index as they were; Up and Down
\* leave the view as it was and move the index (Down to the next board, Up
\* to the previous one, around the ends of the list), in the Home view as in
\* the Boards view. None of them touches the rows of the table.
C20_OtherEventsKeepState ==
    [][(pc = "recv" /\ pc' = "draw" /\ chan # <<>>)
        => LET ev == Head(chan)
               n == Len(read_boards)
               s == Unwrapped(selected)
           IN  /\ ev \in {Tick, Input("other")}
                    => /\ active_menu_item' = active_menu_item
                       /\ selected' = selected
                       /\ rows' = rows
               /\ (ev = Input("Down") /\ IsSome(selected))
                    => /\ active_menu_item' = active_menu_item
                       /\ selected' = Some((s + 1) % n)
                       /\ rows' = rows
               /\ (ev = Input("Up") /\ IsSome(selected))
                    => /\ active_menu_item' = active_menu_item
                       /\ selected' = Some((s + n - 1) % n)
                       /\ rows' = rows]_vars

\* The key Up was handled in the Home view: the view is still Home and the
\* index is the one Up selects from the first board, the last board.
C20_Witness ==
    /\ pc = "draw"
    /\ last_event = Some(Input("Up"))
    /\ menu_before = "Home"
    /\ active_menu_item = "Home"
    /\ selected_before = Some(0)
    /\ selected = Some(Len(read_boards) - 1)


====
